---- MODULE Spec2Model ----
(***************************************************************************)
(* Model of the mock job pipeline of the datarails-demo frontend:          *)
(* the job registry MOCK_JOBS, createMockJob, the timer chain of           *)
(* simulateJobProgress, getMockJobStatus and the MSW request handlers.     *)
(* Beside it: the retry configuration of the queries and the upload        *)
(* mutation behind the API client's response interceptor, the status query *)
(* of useJobStatus, the requests of the endpoint functions against the     *)
(* routes of the mock handlers, the backend's merge into the employee     *)
(* table, which is modelled from its contract, the lists of filterEmployees*)
(* and getJobsList with their pagination, and the helpers of the job page: *)
(* calculateProgress, the retry delays and the processing timeline.        *)
(*                                                                         *)
(* Timestamps are milliseconds counted from one day before module load     *)
(* (the oldest sample job starts at 0); toISOString is order preserving    *)
(* and injective on them, so they are kept as numbers.  The clock is read  *)
(* by createMockJob and by the completing processStep; it has moved on by  *)
(* a millisecond between two readings.                                     *)
(* File names are sequences of one-character strings.                      *)
(***************************************************************************)
EXTENDS Integers, Sequences, FiniteSets, TLC

VARIABLES
    jobs,       \* MOCK_JOBS: job_id -> MockJob record
    sim,        \* closure state of simulateJobProgress, per submitted job
    now,        \* what the next reading of Date.now() returns
    resp,       \* response produced by the request handled in the last step
    fetch,      \* the retryer of the query or mutation that is running
    hook,       \* the useJobStatus query of the job page and its observer
    call,       \* the last call of a function of the frontend and its answer
    table,      \* the destination employee table
    employees   \* MOCK_EMPLOYEES: the employees the mock server lists

vars == <<jobs, sim, now, resp, fetch, hook, call, table, employees>>

\* the state of the mock server, and the state outside it
mockVars == <<jobs, sim, now, resp, employees>>
clientVars == <<fetch, hook, call, table>>

-----------------------------------------------------------------------------
(* Bounds of the model *)

\* number of uploads that are accepted in one run
MaxJobs == 1

\* number of jobs that run at the same time in SpecConcurrent
MaxConcurrentJobs == 2

\* number of records in one uploaded batch, and of batches persisted in one
\* run of SpecMerge
MaxBatch == 2
MaxUploads == 3

\* number of employees generateEmployees is called for (500 in the program)
EmployeeCount == 4

\* greatest number of rows calculateProgress is called with, and greatest
\* attempt index the retry delays are asked for
MaxRows == 9
MaxAttemptIndex == 8

-----------------------------------------------------------------------------
(* Values *)

\* null of number | null and string | null fields
Null == 0 - 1

\* Date.now() when the module is loaded
LoadTime == 24 * 60 * 60 * 1000

\* the identifiers crypto.randomUUID can draw from
Uuids == {<<"uuid", n>> : n \in 1..(MaxJobs + 1)}

completedJobId == <<"demo-completed-job", 1>>
oldJobId == <<"demo-completed-job", 2>>
failedJobId == <<"demo-failed-job", 1>>

SampleIds == {completedJobId, oldJobId, failedJobId}

\* an identifier that is never registered
UnknownId == <<"no-such-job", 0>>

JobIds == SampleIds \cup Uuids

MOCK_JOB_ERRORS ==
    << [row |-> 15,  field |-> "salary"],
       [row |-> 142, field |-> "department_code"],
       [row |-> 156, field |-> "employee_id"],
       [row |-> 223, field |-> "department_code"],
       [row |-> 259, field |-> "name"],
       [row |-> 329, field |-> "department_code"],
       [row |-> 468, field |-> "department_code"],
       [row |-> 512, field |-> "hire_date"] >>

total_rows == 508

steps ==
    << [name |-> "pending",      duration |-> 1000, rows |-> 0],
       [name |-> "reading",      duration |-> 2000, rows |-> 100],
       [name |-> "validating",   duration |-> 3000, rows |-> 300],
       [name |-> "transforming", duration |-> 4000, rows |-> 450],
       [name |-> "persisting",   duration |-> 2000, rows |-> 500] >>

updateInterval == 200

\* currentRows is a fraction; it is kept as a multiple of 1/RowScale
\* (13.33.. and 7.5 rows per update are 80/6 and 45/6)
RowScale == 6

Min(a, b) == IF a < b THEN a ELSE b

-----------------------------------------------------------------------------
(* Files offered to the upload endpoint *)

dotXlsx == <<".", "x", "l", "s", "x">>
dotXls == <<".", "x", "l", "s">>

endsWith(s, suffix) ==
    /\ Len(s) >= Len(suffix)
    /\ SubSeq(s, Len(s) - Len(suffix) + 1, Len(s)) = suffix

MaxFileSize == 10 * 1024 * 1024

NoFile == [name |-> <<>>, size |-> Null]

Files ==
    { [name |-> <<"q", "4">> \o dotXlsx, size |-> MaxFileSize],
      [name |-> <<"q", "3">> \o dotXls, size |-> 98304],
      [name |-> <<"q", "4">> \o dotXlsx, size |-> MaxFileSize + 1],
      [name |-> <<"q", "4", ".", "c", "s", "v">>, size |-> 98304],
      [name |-> <<"q", "4", ".", "X", "L", "S", "X">>, size |-> 98304],
      [name |-> dotXls \o <<".", "t", "x", "t">>, size |-> 0] }

\* a request: the form data cannot be read, it has no file, or it has one
Requests ==
    {[form |-> "unreadable", file |-> NoFile], [form |-> "ok", file |-> NoFile]}
        \cup {[form |-> "ok", file |-> f] : f \in Files}

-----------------------------------------------------------------------------
(* The employees of the mock server *)

\* Strings that are searched or compared are sequences of one-character
\* strings.  The characters localeCompare orders here: a space, the digits,
\* the letters.
digits == <<"0", "1", "2", "3", "4", "5", "6", "7", "8", "9">>
lowerCase ==
    <<"a", "b", "c", "d", "e", "f", "g", "h", "i", "j", "k", "l", "m",
      "n", "o", "p", "q", "r", "s", "t", "u", "v", "w", "x", "y", "z">>
upperCase ==
    <<"A", "B", "C", "D", "E", "F", "G", "H", "I", "J", "K", "L", "M",
      "N", "O", "P", "Q", "R", "S", "T", "U", "V", "W", "X", "Y", "Z">>
collation == <<" ">> \o digits \o lowerCase

\* the first names of the list of generateEmployees
names ==
    << <<"K", "e", "v", "i", "n", " ", "D", "a", "v", "i", "s">>,
       <<"D", "e", "b", "o", "r", "a", "h", " ", "S", "c", "o", "t", "t">>,
       <<"K", "e", "n", "n", "e", "t", "h", " ", "J", "o", "h", "n", "s", "o", "n">>,
       <<"D", "o", "n", "n", "a", " ", "M", "o", "o", "r", "e">>,
       <<"S", "a", "r", "a", "h", " ", "M", "a", "r", "t", "i", "n", "e", "z">>,
       <<"M", "a", "t", "t", "h", "e", "w", " ", "C", "a", "m", "p", "b", "e", "l", "l">> >>

deptCodes == <<"DEV", "FIN", "MKT", "HR", "RND", "OPS">>

DEPARTMENTS ==
    [deptCode \in {"DEV", "FIN", "MKT", "HR", "RND", "OPS"} |->
        CASE deptCode = "DEV" -> "Development"
          [] deptCode = "FIN" -> "Finance"
          [] deptCode = "MKT" -> "Marketing"
          [] deptCode = "HR" -> "Human Resources"
          [] deptCode = "RND" -> "Research & Development"
          [] deptCode = "OPS" -> "Operations"]

\* `E${String(n).padStart(4, '0')}`
employeeId(n) ==
    <<"E", digits[((n \div 1000) % 10) + 1], digits[((n \div 100) % 10) + 1],
      digits[((n \div 10) % 10) + 1], digits[(n % 10) + 1]>>

\* Math.floor(Math.random() * 65000): the least and the greatest value
randomParts == {0, 64999}

\* the employee generateEmployees pushes in iteration i, for one value of
\* Math.floor(Math.random() * 65000).  The fields id, created_at, updated_at,
\* hire_date and tenure_years are left out: no modelled request reads them.
employee(i, random) ==
    LET deptCode == deptCodes[(i % Len(deptCodes)) + 1]
        salary == 35000 + random
    IN  [employee_id |-> employeeId(i + 1),
         name |-> names[(i % Len(names)) + 1],
         department_code |-> deptCode,
         salary |-> salary,
         department_name |-> DEPARTMENTS[deptCode],
         annual_salary_eur |-> (salary * 92 + 50) \div 100]

\* the lists generateEmployees(count) can return
generateEmployees(count) ==
    {[n \in 1..count |-> employee(n - 1, random[n])] : random \in [1..count -> randomParts]}

\* One of the lists.  No step of the job pipeline, of the API client or of
\* the merger reads or writes the employees of the mock server, so their
\* specifications start from this list alone.
LeastSalaries == [n \in 1..EmployeeCount |-> employee(n - 1, 0)]

-----------------------------------------------------------------------------
(* The job registry *)

NoInterval == [active |-> FALSE, currentRows |-> 0, endRows |-> 0, rowsPerUpdate |-> 0]

initializeSampleJobs ==
    [id \in SampleIds |->
        IF id = completedJobId THEN
            [job_id |-> id, filename |-> <<"q", "4">> \o dotXlsx, file_size |-> 245760,
             status |-> "completed", current_step |-> "completed",
             started_at |-> LoadTime - 2 * 60 * 60 * 1000,
             completed_at |-> LoadTime - 2 * 60 * 60 * 1000 + 12000,
             processed_rows |-> 508, employee_count |-> 500]
        ELSE IF id = oldJobId THEN
            [job_id |-> id, filename |-> <<"j", "a", "n">> \o dotXlsx, file_size |-> 189440,
             status |-> "completed", current_step |-> "completed",
             started_at |-> LoadTime - 24 * 60 * 60 * 1000,
             completed_at |-> LoadTime - 24 * 60 * 60 * 1000 + 12000,
             processed_rows |-> 508, employee_count |-> 500]
        ELSE
            [job_id |-> id, filename |-> <<"b", "a", "d">> \o dotXls, file_size |-> 98304,
             status |-> "failed", current_step |-> "validating",
             started_at |-> LoadTime - 60 * 60 * 1000,
             completed_at |-> LoadTime - 60 * 60 * 1000 + 3000,
             processed_rows |-> 150, employee_count |-> 0]]

\* MOCK_JOBS.set(job_id, {...}) of createMockJob
createMockJob(job_id, filename, fileSize, t) ==
    [id \in DOMAIN jobs \cup {job_id} |->
        IF id = job_id THEN
            [job_id |-> job_id, filename |-> filename, file_size |-> fileSize,
             status |-> "pending", current_step |-> "pending",
             started_at |-> t, completed_at |-> Null,
             processed_rows |-> 0, employee_count |-> 0]
        ELSE jobs[id]]

\* crypto.randomUUID(): the identifiers it can return
randomUUID == Uuids \ DOMAIN jobs

\* simulateJobProgress(job_id) up to its setTimeout(processStep, 500)
simulateJobProgress ==
    [currentStep |-> 0, timeout |-> "initial", interval |-> NoInterval]

NoResponse == [kind |-> "none"]

\* no query or mutation has run
NoError == [isAxiosError |-> FALSE, response |-> Null, request |-> FALSE, message |-> "none"]
NoDecision == [failureCount |-> Null, cause |-> NoError, error |-> NoError, retry |-> FALSE]
IdleFetch ==
    [kind |-> "none", status |-> "idle", failureCount |-> 0, requests |-> 0,
     decision |-> NoDecision, delay |-> Null]

\* query.state.data before the first successful fetch
NoData == [isNull |-> TRUE]

\* the jobId of a route without one
NoJobId == <<"undefined", 0>>

\* the job page has not been opened: no query, no observer
NoQuery ==
    [created |-> FALSE, jobId |-> NoJobId, mounted |-> FALSE, data |-> NoData,
     fetching |-> FALSE, interval |-> Null]

\* no endpoint function has been called
NoCall == [fn |-> "none"]

\* the destination table before the first upload: no row, nothing persisted
NoUpload == [batch |-> <<>>, committed |-> FALSE, again |-> FALSE]
EmptyTable == [rows |-> <<>>, last |-> NoUpload, uploads |-> 0]

Init ==
    /\ jobs = initializeSampleJobs
    /\ sim = [id \in {} |-> simulateJobProgress]
    /\ now = LoadTime
    /\ resp = NoResponse
    /\ fetch = IdleFetch
    /\ hook = NoQuery
    /\ call = NoCall
    /\ table = EmptyTable
    /\ employees \in generateEmployees(EmployeeCount)

\* the state after construction with the one list of employees
InitLeast == Init /\ employees = LeastSalaries

-----------------------------------------------------------------------------
(* simulateJobProgress: the timers of one submitted job *)

\* processStep that leaves processed_rows alone when it completes the job
processStepJob_KeepsRows(job, currentStep, t) ==
    LET started == IF currentStep = 0 THEN [job EXCEPT !.status = "processing"] ELSE job
    IN  IF currentStep < Len(steps)
        THEN [started EXCEPT !.current_step = steps[currentStep + 1].name]
        ELSE [started EXCEPT !.status = "completed",
                             !.current_step = "completed",
                             !.completed_at = t,
                             !.employee_count = total_rows - Len(MOCK_JOB_ERRORS)]

\* processStep that fails a job whose sheet had rejected rows
processStepJob_FailsOnErrors(job, currentStep, t) ==
    LET started == IF currentStep = 0 THEN [job EXCEPT !.status = "processing"] ELSE job
    IN  IF currentStep < Len(steps)
        THEN [started EXCEPT !.current_step = steps[currentStep + 1].name]
        ELSE [started EXCEPT !.status = IF Len(MOCK_JOB_ERRORS) > 0
                                        THEN "failed" ELSE "completed",
                             !.current_step = "completed",
                             !.processed_rows = total_rows,
                             !.completed_at = t,
                             !.employee_count = total_rows - Len(MOCK_JOB_ERRORS)]

\* processStep that counts the rejected rows as persisted employees
processStepJob_CountsAllRows(job, currentStep, t) ==
    LET started == IF currentStep = 0 THEN [job EXCEPT !.status = "processing"] ELSE job
    IN  IF currentStep < Len(steps)
        THEN [started EXCEPT !.current_step = steps[currentStep + 1].name]
        ELSE [started EXCEPT !.status = "completed",
                             !.current_step = "completed",
                             !.processed_rows = total_rows,
                             !.completed_at = t,
                             !.employee_count = total_rows]

\* processStep that starts validating where reading is due
processStepJob_SkipsReading(job, currentStep, t) ==
    LET started == IF currentStep = 0 THEN [job EXCEPT !.status = "processing"] ELSE job
    IN  IF currentStep < Len(steps)
        THEN [started EXCEPT !.current_step = steps[IF currentStep = 1 THEN 3 ELSE currentStep + 1].name]
        ELSE [started EXCEPT !.status = "completed",
                             !.current_step = "completed",
                             !.processed_rows = total_rows,
                             !.completed_at = t,
                             !.employee_count = total_rows - Len(MOCK_JOB_ERRORS)]

\* what processStep writes to the job record; currentStep is the closure's
\* counter before the call, t is the time of the call
processStepJob(job, currentStep, t) ==
    LET started == IF currentStep = 0 THEN [job EXCEPT !.status = "processing"] ELSE job
    IN  IF currentStep < Len(steps)
        THEN [started EXCEPT !.current_step = steps[currentStep + 1].name]
        ELSE [started EXCEPT !.status = "completed",
                             !.current_step = "completed",
                             !.processed_rows = total_rows,
                             !.completed_at = t,
                             !.employee_count = total_rows - Len(MOCK_JOB_ERRORS)]

\* an interval that counts every step from row 0
progressInterval_FromZero(currentStep) ==
    LET step == steps[currentStep + 1]
        startRows == 0
        endRows == step.rows
    IN  [active |-> TRUE,
         currentRows |-> startRows * RowScale,
         endRows |-> endRows,
         rowsPerUpdate |-> ((endRows - startRows) * RowScale * updateInterval) \div step.duration]

\* the interval processStep starts for steps[currentStep] (0-based as in the code)
progressInterval(currentStep) ==
    LET step == steps[currentStep + 1]
        startRows == IF currentStep > 0 THEN steps[currentStep].rows ELSE 0
        endRows == step.rows
    IN  [active |-> TRUE,
         currentRows |-> startRows * RowScale,
         endRows |-> endRows,
         rowsPerUpdate |-> ((endRows - startRows) * RowScale * updateInterval) \div step.duration]

\* processStep that sets its timeout again after the last step
processStepSim_Rearmed(s) ==
    IF s.currentStep < Len(steps)
    THEN [currentStep |-> s.currentStep + 1,
          timeout |-> "step",
          interval |-> progressInterval(s.currentStep)]
    ELSE [s EXCEPT !.timeout = "step"]

\* processStep that forgets setTimeout after the validating step has started
processStepSim_Stalls(s) ==
    IF s.currentStep < Len(steps)
    THEN [currentStep |-> s.currentStep + 1,
          timeout |-> IF s.currentStep = 2 THEN "none" ELSE "step",
          interval |-> progressInterval(s.currentStep)]
    ELSE [s EXCEPT !.timeout = "none"]

\* what processStep does to its closure: the interval, currentStep++, the timeout
processStepSim(s) ==
    IF s.currentStep < Len(steps)
    THEN [currentStep |-> s.currentStep + 1,
          timeout |-> "step",
          interval |-> progressInterval(s.currentStep)]
    ELSE [s EXCEPT !.timeout = "none"]

\* processStep that writes to the record of every submitted job
processStep_EveryJob(job_id, s) ==
    IF job_id \in DOMAIN jobs
    THEN /\ jobs' = [id \in DOMAIN jobs |->
                        IF id \in DOMAIN sim
                        THEN processStepJob(jobs[id], s.currentStep, now)
                        ELSE jobs[id]]
         /\ sim' = [sim EXCEPT ![job_id] = processStepSim(s)]
         /\ now' = IF s.currentStep < Len(steps) THEN now ELSE now + 1
    ELSE /\ sim' = [sim EXCEPT ![job_id] = [s EXCEPT !.timeout = "none"]]
         /\ UNCHANGED <<jobs, now>>

\* one call of the closure processStep of simulateJobProgress(job_id)
processStep(job_id, s) ==
    IF job_id \in DOMAIN jobs
    THEN /\ jobs' = [jobs EXCEPT ![job_id] = processStepJob(jobs[job_id], s.currentStep, now)]
         /\ sim' = [sim EXCEPT ![job_id] = processStepSim(s)]
         /\ now' = IF s.currentStep < Len(steps) THEN now ELSE now + 1
    ELSE /\ sim' = [sim EXCEPT ![job_id] = [s EXCEPT !.timeout = "none"]]
         /\ UNCHANGED <<jobs, now>>

\* setTimeout(processStep, 500) fires
InitialTimeout(job_id) ==
    /\ job_id \in DOMAIN sim
    /\ sim[job_id].timeout = "initial"
    /\ processStep(job_id, sim[job_id])
    /\ resp' = NoResponse
    /\ UNCHANGED <<employees, clientVars>>

\* setTimeout(() => { clearInterval(progressInterval); processStep() }, stepDuration) fires
StepTimeout(job_id) ==
    /\ job_id \in DOMAIN sim
    /\ sim[job_id].timeout = "step"
    /\ processStep(job_id, [sim[job_id] EXCEPT !.interval = NoInterval])
    /\ resp' = NoResponse
    /\ UNCHANGED <<employees, clientVars>>

\* currentRows = Math.min(currentRows + rowsPerUpdate, endRows)
nextRows(interval) ==
    Min(interval.currentRows + interval.rowsPerUpdate, interval.endRows * RowScale)

\* the setInterval callback fires
IntervalTick(job_id) ==
    /\ job_id \in DOMAIN sim
    /\ sim[job_id].interval.active
    /\ LET currentRows == nextRows(sim[job_id].interval)
       IN  IF job_id \in DOMAIN jobs
           THEN /\ sim' = [sim EXCEPT ![job_id].interval.currentRows = currentRows]
                /\ jobs' = [jobs EXCEPT ![job_id].processed_rows = currentRows \div RowScale]
           ELSE /\ sim' = [sim EXCEPT ![job_id].interval = NoInterval]
                /\ UNCHANGED jobs
    /\ UNCHANGED now
    /\ resp' = NoResponse
    /\ UNCHANGED <<employees, clientVars>>

-----------------------------------------------------------------------------
(* Status snapshots *)

\* the null getMockJobStatus returns for an unknown identifier
NoStatus == [isNull |-> TRUE]

\* a snapshot that lists the row errors whatever the status
getMockJobStatus_AlwaysErrors(job_id) ==
    IF job_id \notin DOMAIN jobs THEN NoStatus
    ELSE LET job == jobs[job_id]
         IN  [job_id |-> job.job_id,
              filename |-> job.filename,
              status |-> job.status,
              current_step |-> job.current_step,
              total_rows |-> 508,
              processed_rows |-> job.processed_rows,
              error_rows |-> IF job.status = "completed" THEN Len(MOCK_JOB_ERRORS) ELSE 0,
              errors |-> MOCK_JOB_ERRORS,
              started_at |-> job.started_at,
              completed_at |-> job.completed_at]

\* a lookup that falls back to the first sample job
getMockJobStatus_Fallback(job_id) ==
    LET job == IF job_id \in DOMAIN jobs THEN jobs[job_id] ELSE jobs[completedJobId]
    IN  [job_id |-> job.job_id,
         filename |-> job.filename,
         status |-> job.status,
         current_step |-> job.current_step,
         total_rows |-> 508,
         processed_rows |-> job.processed_rows,
         error_rows |-> IF job.status = "completed" THEN Len(MOCK_JOB_ERRORS) ELSE 0,
         errors |-> IF job.status = "completed" THEN MOCK_JOB_ERRORS ELSE <<>>,
         started_at |-> job.started_at,
         completed_at |-> job.completed_at]

getMockJobStatus(job_id) ==
    IF job_id \notin DOMAIN jobs THEN NoStatus
    ELSE LET job == jobs[job_id]
         IN  [job_id |-> job.job_id,
              filename |-> job.filename,
              status |-> job.status,
              current_step |-> job.current_step,
              total_rows |-> 508,
              processed_rows |-> job.processed_rows,
              error_rows |-> IF job.status = "completed" THEN Len(MOCK_JOB_ERRORS) ELSE 0,
              errors |-> IF job.status = "completed" THEN MOCK_JOB_ERRORS ELSE <<>>,
              started_at |-> job.started_at,
              completed_at |-> job.completed_at]

\* the entry getJobsList builds for one MockJob
jobsListItem(mockJob) ==
    [job_id |-> mockJob.job_id,
     filename |-> mockJob.filename,
     file_size |-> mockJob.file_size,
     status |-> mockJob.status,
     current_step |-> mockJob.current_step,
     total_rows |-> 508,
     processed_rows |-> mockJob.processed_rows,
     error_rows |-> IF mockJob.status = "completed" THEN Len(MOCK_JOB_ERRORS) ELSE 0,
     successful_rows |-> IF mockJob.status = "completed" THEN 508 - Len(MOCK_JOB_ERRORS) ELSE 0,
     employee_count |-> mockJob.employee_count,
     started_at |-> mockJob.started_at,
     completed_at |-> mockJob.completed_at]

-----------------------------------------------------------------------------
(* MSW handlers *)

\* the identifiers a client asks the status of
QueryIds == JobIds \cup {UnknownId}

\* GET /api/status/:jobId
statusHandler(jobId) ==
    LET jobStatus == getMockJobStatus(jobId)
    IN  IF jobStatus = NoStatus
        THEN [kind |-> "status", job_id |-> jobId, status |-> 404, body |-> NoStatus]
        ELSE [kind |-> "status", job_id |-> jobId, status |-> 200, body |-> jobStatus]

GetStatus(jobId) ==
    /\ resp' = statusHandler(jobId)
    /\ UNCHANGED <<jobs, sim, now>>
    /\ UNCHANGED <<employees, clientVars>>

\* a handler without the size check
uploadStatus_NoSizeCheck(req) ==
    IF req.form = "unreadable" THEN 500
    ELSE IF req.file = NoFile THEN 400
    ELSE IF ~endsWith(req.file.name, dotXlsx) /\ ~endsWith(req.file.name, dotXls) THEN 400
    ELSE 200

\* POST /api/upload: the status code the handler answers with
uploadStatus(req) ==
    IF req.form = "unreadable" THEN 500
    ELSE IF req.file = NoFile THEN 400
    ELSE IF ~endsWith(req.file.name, dotXlsx) /\ ~endsWith(req.file.name, dotXls) THEN 400
    ELSE IF req.file.size > MaxFileSize THEN 413
    ELSE 200

uploadHandler(req) ==
    IF uploadStatus(req) = 200
    THEN /\ \E job_id \in randomUUID :
                /\ jobs' = createMockJob(job_id, req.file.name, req.file.size, now)
                /\ sim' = [id \in DOMAIN sim \cup {job_id} |->
                              IF id = job_id THEN simulateJobProgress ELSE sim[id]]
                /\ now' = now + 1
                /\ resp' = [kind |-> "upload", req |-> req, status |-> 200, job_id |-> job_id]
    ELSE /\ resp' = [kind |-> "upload", req |-> req, status |-> uploadStatus(req),
                     job_id |-> UnknownId]
         /\ UNCHANGED <<jobs, sim, now>>

\* the submitted jobs that still have a timer set
Running == {id \in DOMAIN sim : sim[id].timeout # "none"}

\* A client that submits one file at a time: a file is accepted while fewer
\* than MaxJobs were, and none of them is still running.
Upload(req) ==
    /\ uploadStatus(req) = 200 => Cardinality(DOMAIN sim) < MaxJobs /\ Running = {}
    /\ uploadHandler(req)
    /\ UNCHANGED <<employees, clientVars>>

Next ==
    \/ \E req \in Requests : Upload(req)
    \/ \E job_id \in Uuids : InitialTimeout(job_id)
    \/ \E job_id \in Uuids : StepTimeout(job_id)
    \/ \E job_id \in Uuids : IntervalTick(job_id)
    \/ \E jobId \in QueryIds : GetStatus(jobId)

Spec == InitLeast /\ [][Next]_vars

\* The timers of a job keep firing: a timeout that is set is delivered by the
\* event loop. (The setInterval callbacks need no fairness: the step timeout
\* clears them.)
TimersFire == \A job_id \in Uuids : WF_vars(InitialTimeout(job_id)) /\ WF_vars(StepTimeout(job_id))

FairSpec == Spec /\ TimersFire

\* A client that submits files without waiting: up to MaxConcurrentJobs
\* accepted uploads, whose simulations run at the same time.
UploadConcurrent(req) ==
    /\ uploadStatus(req) = 200
    /\ Cardinality(DOMAIN sim) < MaxConcurrentJobs
    /\ uploadHandler(req)
    /\ UNCHANGED <<employees, clientVars>>

NextConcurrent ==
    \/ \E req \in Requests : UploadConcurrent(req)
    \/ \E job_id \in Uuids : InitialTimeout(job_id)
    \/ \E job_id \in Uuids : StepTimeout(job_id)
    \/ \E job_id \in Uuids : IntervalTick(job_id)

SpecConcurrent == InitLeast /\ [][NextConcurrent]_vars

FairSpecConcurrent == SpecConcurrent /\ TimersFire

-----------------------------------------------------------------------------
(* The API client and the retry configuration of the queries and mutations *)

\* HTTP statuses that make axios reject (validateStatus: outside 2xx)
HttpErrorStatuses == {304, 400, 401, 403, 404, 408, 413, 422, 429, 500, 501, 502, 503, 504}

\* an AxiosError: response is the status of error.response or Null when there
\* is none, request tells whether error.request is set
AxiosError(response, request) ==
    [isAxiosError |-> TRUE, response |-> response, request |-> request, message |-> "axios"]

\* new Error(message): no isAxiosError property, no response
Error(message) ==
    [isAxiosError |-> FALSE, response |-> Null, request |-> FALSE, message |-> message]

\* what axios rejects with: an error status, no response to a request that
\* was sent, or a failure before the request was sent
AxiosErrors ==
    {AxiosError(status, TRUE) : status \in HttpErrorStatuses}
        \cup {AxiosError(Null, TRUE), AxiosError(Null, FALSE)}

\* the values a queryFn or mutationFn may reject with
ErrorValues ==
    AxiosErrors \cup {Error("An error occurred"),
                      Error("No response from server. Please check your connection.")}

\* the error branch of the response interceptor of the API client; the
\* response data carries no message or detail
interceptor(error) ==
    IF error.response # Null THEN Error("An error occurred")
    ELSE IF error.request THEN Error("No response from server. Please check your connection.")
    ELSE error

\* shouldRetry that stops one failure late
shouldRetry_OneMore(failureCount, error) ==
    LET maxRetries == 3
    IN  IF failureCount > maxRetries THEN FALSE
        ELSE IF error.isAxiosError
        THEN IF error.response = Null THEN TRUE
             ELSE IF error.response >= 400 /\ error.response < 500
                  THEN error.response = 408 \/ error.response = 429
             ELSE error.response >= 500
        ELSE FALSE

shouldRetry(failureCount, error) ==
    LET maxRetries == 3
    IN  IF failureCount >= maxRetries THEN FALSE
        ELSE IF error.isAxiosError
        THEN IF error.response = Null THEN TRUE
             ELSE IF error.response >= 400 /\ error.response < 500
                  THEN error.response = 408 \/ error.response = 429
             ELSE error.response >= 500
        ELSE FALSE

\* a delay that doubles without an end
getRetryDelay_Uncapped(attemptIndex) == 1000 * 2 ^ attemptIndex

getRetryDelay(attemptIndex) == Min(1000 * 2 ^ attemptIndex, 30000)

\* shouldRetryMutation that retries on every server error
shouldRetryMutation_ServerErrors(failureCount, error) ==
    LET maxRetries == 1
    IN  IF failureCount >= maxRetries THEN FALSE
        ELSE IF error.isAxiosError
        THEN IF error.response = Null THEN TRUE
             ELSE error.response >= 500
        ELSE FALSE

shouldRetryMutation(failureCount, error) ==
    LET maxRetries == 1
    IN  IF failureCount >= maxRetries THEN FALSE
        ELSE IF error.isAxiosError
        THEN IF error.response = Null THEN TRUE
             ELSE error.response = 502 \/ error.response = 503 \/ error.response = 504
        ELSE FALSE

getMutationRetryDelay(attemptIndex) == Min(2000 * 2 ^ attemptIndex, 10000)

\* useQuery runs its queryFn: the first request is sent
StartQuery ==
    /\ fetch.status \in {"idle", "success", "error"}
    /\ fetch' = [IdleFetch EXCEPT !.kind = "query", !.status = "pending", !.requests = 1]
    /\ UNCHANGED <<mockVars, hook, call, table>>

\* mutate(file) of useUpload, one press of Upload: the first POST is sent
Mutate ==
    /\ fetch.status \in {"idle", "success", "error"}
    /\ fetch' = [IdleFetch EXCEPT !.kind = "mutation", !.status = "pending", !.requests = 1]
    /\ UNCHANGED <<mockVars, hook, call, table>>

\* the request in flight is answered with a 2xx status
RequestSucceeds ==
    /\ fetch.status = "pending"
    /\ fetch' = [fetch EXCEPT !.status = "success"]
    /\ UNCHANGED <<mockVars, hook, call, table>>

\* The request in flight fails with cause and the query or mutation function
\* rejects with error: the retryer asks retry(failureCount, error) and
\* retryDelay(failureCount, error), then gives up or counts the failure and
\* sleeps.
RequestFails(cause, error) ==
    /\ fetch.status = "pending"
    /\ LET retry == IF fetch.kind = "query"
                     THEN shouldRetry(fetch.failureCount, error)
                     ELSE shouldRetryMutation(fetch.failureCount, error)
           delay == IF fetch.kind = "query"
                    THEN getRetryDelay(fetch.failureCount)
                    ELSE getMutationRetryDelay(fetch.failureCount)
           decision == [failureCount |-> fetch.failureCount, cause |-> cause,
                        error |-> error, retry |-> retry]
       IN  fetch' = IF retry
                    THEN [fetch EXCEPT !.status = "waiting",
                                       !.failureCount = @ + 1,
                                       !.decision = decision,
                                       !.delay = delay]
                    ELSE [fetch EXCEPT !.status = "error", !.decision = decision]
    /\ UNCHANGED <<mockVars, hook, call, table>>

\* the retry delay has passed: the request is sent again
RetryTimer ==
    /\ fetch.status = "waiting"
    /\ fetch' = [fetch EXCEPT !.status = "pending", !.requests = @ + 1]
    /\ UNCHANGED <<mockVars, hook, call, table>>

\* the query or mutation function rejects with some error value
Rejects(error) == RequestFails(error, error)

NextRetry ==
    \/ StartQuery
    \/ Mutate
    \/ RequestSucceeds
    \/ \E error \in ErrorValues : Rejects(error)
    \/ RetryTimer

\* the retry functions under every error value
SpecRetry == InitLeast /\ [][NextRetry]_vars

\* a request of the API client fails: the response interceptor rejects with
\* what it makes of the AxiosError
ApiRejects(axiosError) == RequestFails(axiosError, interceptor(axiosError))

NextApi ==
    \/ StartQuery
    \/ Mutate
    \/ RequestSucceeds
    \/ \E axiosError \in AxiosErrors : ApiRejects(axiosError)
    \/ RetryTimer

\* the queries and the mutation as the hooks run them, through the API client
SpecApi == InitLeast /\ [][NextApi]_vars

-----------------------------------------------------------------------------
(* useJobStatus: the status query of the job page *)

\* VITE_POLLING_INTERVAL_MS || '2000'
POLLING_INTERVAL_MS == 2000

\* enabled: !!jobId
enabled(jobId) == jobId # NoJobId

\* a refetchInterval that polls whatever the status is
refetchInterval_Always(data) ==
    IF data # NoData THEN POLLING_INTERVAL_MS ELSE Null

\* the refetchInterval option: the interval in ms, Null for false
refetchInterval(data) ==
    IF data # NoData /\ (data.status = "processing" \/ data.status = "pending")
    THEN POLLING_INTERVAL_MS
    ELSE Null

\* the refetchOnMount option
refetchOnMount(data) ==
    IF data = NoData THEN TRUE
    ELSE IF data.status = "processing" \/ data.status = "pending" THEN TRUE
    ELSE FALSE

\* The observer's decision to fetch when it subscribes: a query without data
\* is loaded; one with data is fetched again when refetchOnMount says so and
\* the data is stale (older than the staleTime of the query client).
shouldFetchOnMount(jobId, data, stale) ==
    /\ enabled(jobId)
    /\ \/ data = NoData
       \/ refetchOnMount(data) /\ stale

\* the observer's interval timer for the query state: set while it is
\* subscribed, the query is enabled and refetchInterval gives a time
updateRefetchInterval(jobId, mounted, data) ==
    IF mounted /\ enabled(jobId) THEN refetchInterval(data) ELSE Null

\* the route parameters the job page is opened with
PageIds == JobIds \cup {UnknownId, NoJobId}

\* The job page mounts: the first time for the job of a link or of an upload,
\* an unknown identifier or none; later for the same one.
Mount(jobId) ==
    /\ ~hook.mounted
    /\ jobId \in DOMAIN jobs \cup {UnknownId, NoJobId}
    /\ hook.created => jobId = hook.jobId
    /\ \E stale \in BOOLEAN :
           hook' = [created |-> TRUE,
                    jobId |-> jobId,
                    mounted |-> TRUE,
                    data |-> hook.data,
                    fetching |-> hook.fetching \/ shouldFetchOnMount(jobId, hook.data, stale),
                    interval |-> updateRefetchInterval(jobId, TRUE, hook.data)]
    /\ UNCHANGED <<mockVars, fetch, call, table>>

\* the job page unmounts: the observer clears its interval; a fetch in flight
\* goes on
Unmount ==
    /\ hook.mounted
    /\ hook' = [hook EXCEPT !.mounted = FALSE, !.interval = Null]
    /\ UNCHANGED <<mockVars, fetch, call, table>>

\* the interval timer fires: a fetch starts unless one is in flight
PollTick ==
    /\ hook.interval # Null
    /\ ~hook.fetching
    /\ hook' = [hook EXCEPT !.fetching = TRUE]
    /\ UNCHANGED <<mockVars, fetch, call, table>>

\* the fetch in flight returns the status of the job as it is now
FetchSucceeds ==
    /\ hook.fetching
    /\ hook.jobId \in DOMAIN jobs
    /\ LET data == getMockJobStatus(hook.jobId)
       IN  hook' = [hook EXCEPT !.fetching = FALSE,
                                !.data = data,
                                !.interval = updateRefetchInterval(hook.jobId, hook.mounted, data)]
    /\ UNCHANGED <<mockVars, fetch, call, table>>

\* the fetch in flight fails for good (unknown job, or no retry left): the
\* data stays what it was
FetchFails ==
    /\ hook.fetching
    /\ hook' = [hook EXCEPT !.fetching = FALSE]
    /\ UNCHANGED <<mockVars, fetch, call, table>>

\* the requests the upload handler accepts
AcceptedRequests == {req \in Requests : uploadStatus(req) = 200}

\* the upload whose job the page is opened for
UploadOnce(req) ==
    /\ DOMAIN sim = {}
    /\ uploadHandler(req)
    /\ UNCHANGED <<employees, clientVars>>

NextPoll ==
    \/ \E req \in AcceptedRequests : UploadOnce(req)
    \/ \E job_id \in Uuids : InitialTimeout(job_id)
    \/ \E job_id \in Uuids : StepTimeout(job_id)
    \/ \E job_id \in Uuids : IntervalTick(job_id)
    \/ \E jobId \in PageIds : Mount(jobId)
    \/ Unmount
    \/ PollTick
    \/ FetchSucceeds
    \/ FetchFails

\* the job page polling a job of the registry while the simulations run
SpecPoll == InitLeast /\ [][NextPoll]_vars

-----------------------------------------------------------------------------
(* The endpoint functions of the frontend and the routes of the mock handlers *)

\* an optional string parameter that is not set
Undefined == "undefined"

\* the values of EmployeeQueryParams a caller passes; Null is a number that is
\* not set
EmployeeQueryParams ==
    [page : {Null, 0, 1, 2}, page_size : {Null, 0, 20, 50},
     sort_by : {Undefined, "name", "salary"}, order : {Undefined, "asc", "desc"},
     search : {Undefined, "ann"}, department : {Undefined, "Engineering"}]

\* the values of JobsQueryParams a caller passes
JobsQueryParams ==
    [page : {Null, 1, 2}, page_size : {Null, 20},
     status : {Undefined, "processing", "completed"},
     sort_by : {Undefined, "started_at"}, order : {Undefined, "desc"}]

\* value || fallback for a number
orDefault(value, fallback) == IF value = Null \/ value = 0 THEN fallback ELSE value

\* no query parameters
NoParams == [key \in {} |-> Undefined]

\* api.post('/api/v1/upload', formData)
uploadFileRequest(file) ==
    [method |-> "POST", path |-> <<"api", "v1", "upload">>, param |-> NoJobId,
     params |-> NoParams]

\* api.get(`/api/v1/upload/status/${jobId}`)
getJobStatusRequest(jobId) ==
    [method |-> "GET", path |-> <<"api", "v1", "upload", "status">>, param |-> jobId,
     params |-> NoParams]

\* api.get('/api/v1/employees', { params: { page, size, department } }); axios
\* leaves out a parameter that is undefined
getEmployeesRequest(params) ==
    [method |-> "GET", path |-> <<"api", "v1", "employees">>, param |-> NoJobId,
     params |-> IF params.department = Undefined
                THEN [page |-> orDefault(params.page, 1),
                      size |-> orDefault(params.page_size, 20)]
                ELSE [page |-> orDefault(params.page, 1),
                      size |-> orDefault(params.page_size, 20),
                      department |-> params.department]]

\* api.get('/api/v1/upload/jobs', { params: { page, size, status } })
getJobsRequest(params) ==
    [method |-> "GET", path |-> <<"api", "v1", "upload", "jobs">>, param |-> NoJobId,
     params |-> IF params.status = Undefined
                THEN [page |-> orDefault(params.page, 1),
                      size |-> orDefault(params.page_size, 20)]
                ELSE [page |-> orDefault(params.page, 1),
                      size |-> orDefault(params.page_size, 20),
                      status |-> params.status]]

\* the routes of the MSW handlers, in the order they are registered; param
\* tells whether the path ends with :jobId
handlers ==
    <<[name |-> "upload", method |-> "POST", path |-> <<"api", "upload">>, param |-> FALSE],
      [name |-> "status", method |-> "GET", path |-> <<"api", "status">>, param |-> TRUE],
      [name |-> "employees", method |-> "GET", path |-> <<"api", "employees">>, param |-> FALSE],
      [name |-> "jobs", method |-> "GET", path |-> <<"api", "jobs">>, param |-> FALSE]>>

\* the handler's route matches the request
matches(handler, request) ==
    /\ handler.method = request.method
    /\ handler.path = request.path
    /\ handler.param = (request.param # NoJobId)

\* the name of the first handler that matches, "none" when the request is
\* unhandled (onUnhandledRequest: 'bypass' lets it go to the network)
route(request) ==
    IF \E i \in 1..Len(handlers) : matches(handlers[i], request)
    THEN handlers[CHOOSE i \in 1..Len(handlers) :
                      /\ matches(handlers[i], request)
                      /\ \A j \in 1..(i - 1) : ~matches(handlers[j], request)].name
    ELSE "none"

\* the keys of the JSON body a handler answers with
bodyKeys(name, status) ==
    IF status # 200 THEN {"detail"}
    ELSE CASE name = "upload" -> {"job_id"}
           [] name = "status" -> {"job_id", "filename", "status", "current_step", "total_rows",
                                  "processed_rows", "error_rows", "errors", "started_at",
                                  "completed_at", "employee_count"}
           [] name = "employees" -> {"employees", "total", "page", "page_size", "total_pages"}
           [] name = "jobs" -> {"jobs", "total", "page", "page_size", "total_pages"}

\* what an endpoint function returns, response.data.data: the value under
\* data of the body, undefined for a body without it
unwrap(keys) == IF "data" \in keys THEN "data" ELSE Undefined

\* an unhandled request leaves the browser for the real backend
bypass(fn, args, request) ==
    [fn |-> fn, args |-> args, request |-> request, route |-> "none", status |-> Null,
     keys |-> {}, result |-> "not served"]

\* a handled request: the status and body of the handler, and what the
\* endpoint function makes of it (axios rejects a status outside 2xx)
served(fn, args, request, status) ==
    [fn |-> fn, args |-> args, request |-> request, route |-> route(request),
     status |-> status, keys |-> bodyKeys(route(request), status),
     result |-> IF status = 200 THEN unwrap(bodyKeys(route(request), status)) ELSE "rejected"]

uploadFile(file) ==
    LET request == uploadFileRequest(file)
        req == [form |-> "ok", file |-> file]
    IN  /\ IF route(request) = "upload"
           THEN /\ uploadHandler(req)
                /\ call' = served("uploadFile", file, request, uploadStatus(req))
                /\ UNCHANGED employees
           ELSE /\ call' = bypass("uploadFile", file, request)
                /\ UNCHANGED mockVars
        /\ UNCHANGED <<fetch, hook, table>>

getJobStatus(jobId) ==
    LET request == getJobStatusRequest(jobId)
    IN  /\ IF route(request) = "status"
           THEN /\ resp' = statusHandler(jobId)
                /\ call' = served("getJobStatus", jobId, request, statusHandler(jobId).status)
                /\ UNCHANGED <<jobs, sim, now, employees>>
           ELSE /\ call' = bypass("getJobStatus", jobId, request)
                /\ UNCHANGED mockVars
        /\ UNCHANGED <<fetch, hook, table>>

getEmployees(params) ==
    LET request == getEmployeesRequest(params)
    IN  /\ call' = IF route(request) = "employees"
                    THEN served("getEmployees", params, request, 200)
                    ELSE bypass("getEmployees", params, request)
        /\ UNCHANGED <<mockVars, fetch, hook, table>>

getJobs(params) ==
    LET request == getJobsRequest(params)
    IN  /\ call' = IF route(request) = "jobs"
                    THEN served("getJobs", params, request, 200)
                    ELSE bypass("getJobs", params, request)
        /\ UNCHANGED <<mockVars, fetch, hook, table>>

NextEndpoints ==
    \/ \E file \in Files : uploadFile(file)
    \/ \E jobId \in QueryIds : getJobStatus(jobId)
    \/ \E params \in EmployeeQueryParams : getEmployees(params)
    \/ \E params \in JobsQueryParams : getJobs(params)

\* the endpoint functions called with mocks enabled
SpecEndpoints == InitLeast /\ [][NextEndpoints]_vars

-----------------------------------------------------------------------------
(* The Persistence Merger of the backend and the destination table *)

\* natural keys and attribute values of the transformed records
EmployeeIds == {"E0001", "E0002"}
Salaries == {"50000", "65000"}

\* an EmployeeRecord handed to the merger
EmployeeRecords == [employee_id : EmployeeIds, salary : Salaries]

\* the batches a file yields: up to MaxBatch records, natural keys may repeat
Batches == UNION {[1..n -> EmployeeRecords] : n \in 1..MaxBatch}

\* an upsert that always inserts
upsert_Insert(rows, record, t) ==
    Append(rows, [employee_id |-> record.employee_id, salary |-> record.salary,
                  created_at |-> t, updated_at |-> t])

\* insert-or-update by natural key: the row of the employee_id gets the
\* record's attributes and a new updated_at; without such a row one is added
upsert(rows, record, t) ==
    IF \E i \in 1..Len(rows) : rows[i].employee_id = record.employee_id
    THEN [i \in 1..Len(rows) |->
             IF rows[i].employee_id = record.employee_id
             THEN [rows[i] EXCEPT !.salary = record.salary, !.updated_at = t]
             ELSE rows[i]]
    ELSE Append(rows, [employee_id |-> record.employee_id, salary |-> record.salary,
                       created_at |-> t, updated_at |-> t])

\* the records of a batch upserted in order, in one transaction
RECURSIVE mergeBatch(_, _, _)
mergeBatch(rows, batch, t) ==
    IF batch = <<>> THEN rows
    ELSE mergeBatch(upsert(rows, Head(batch), t), Tail(batch), t)

\* the transaction of a batch commits; again tells that the batch is the one
\* committed just before
PersistBatch(batch) ==
    /\ table.uploads < MaxUploads
    /\ table' = [rows |-> mergeBatch(table.rows, batch, table.uploads + 1),
                 last |-> [batch |-> batch, committed |-> TRUE,
                           again |-> table.last.committed /\ table.last.batch = batch],
                 uploads |-> table.uploads + 1]
    /\ UNCHANGED <<mockVars, fetch, hook, call>>

\* the transaction of a batch fails: the batch has no effect on the rows
PersistFails(batch) ==
    /\ table.uploads < MaxUploads
    /\ table' = [rows |-> table.rows,
                 last |-> [batch |-> batch, committed |-> FALSE, again |-> FALSE],
                 uploads |-> table.uploads + 1]
    /\ UNCHANGED <<mockVars, fetch, hook, call>>

NextMerge ==
    \/ \E batch \in Batches : PersistBatch(batch)
    \/ \E batch \in Batches : PersistFails(batch)

\* uploads merged into the destination table one after the other
SpecMerge == InitLeast /\ [][NextMerge]_vars

-----------------------------------------------------------------------------
(* The lists of the mock server: filterEmployees and getJobsList *)

\* the lower case of a character
lowerOf ==
    [char \in {upperCase[u] : u \in 1..Len(upperCase)}
                \cup {collation[k] : k \in 1..Len(collation)} |->
        IF \E u \in 1..Len(upperCase) : upperCase[u] = char
        THEN lowerCase[CHOOSE u \in 1..Len(upperCase) : upperCase[u] = char]
        ELSE char]

\* text.toLowerCase()
toLowerCase(text) == [k \in 1..Len(text) |-> lowerOf[text[k]]]

\* text.includes(part)
includes(text, part) ==
    \E k \in 0..(Len(text) - Len(part)) : SubSeq(text, k + 1, k + Len(part)) = part

\* where a character stands in the collation, its case set aside
rank == [char \in DOMAIN lowerOf |-> CHOOSE k \in 1..Len(collation) : collation[k] = lowerOf[char]]

\* a.localeCompare(b), the case of the letters set aside
RECURSIVE compareLetters(_, _)
compareLetters(a, b) ==
    IF a = <<>> /\ b = <<>> THEN 0
    ELSE IF a = <<>> THEN 0 - 1
    ELSE IF b = <<>> THEN 1
    ELSE IF rank[Head(a)] < rank[Head(b)] THEN 0 - 1
    ELSE IF rank[Head(a)] > rank[Head(b)] THEN 1
    ELSE compareLetters(Tail(a), Tail(b))

\* a.localeCompare(b): between strings of the same letters the first
\* difference of case decides, the lower case first
localeCompare(a, b) ==
    IF compareLetters(a, b) # 0 THEN compareLetters(a, b)
    ELSE IF a = b THEN 0
    ELSE LET k == CHOOSE d \in 1..Len(a) : a[d] # b[d] /\ \A c \in 1..(d - 1) : a[c] = b[c]
         IN  IF lowerOf[a[k]] = a[k] THEN 0 - 1 ELSE 1

\* the fields the lists are sorted by here: strings, numbers, and started_at,
\* an ISO string that is kept as a number of the same order
StringKeys == {"employee_id", "name"}
NumberKeys ==
    {"salary", "annual_salary_eur", "file_size", "total_rows", "processed_rows",
     "error_rows", "successful_rows", "employee_count"}
TimeKeys == {"started_at"}

sign(n) == IF n < 0 THEN 0 - 1 ELSE IF n > 0 THEN 1 ELSE 0

\* the comparator both lists are sorted with; a field no item has is
\* undefined in both items
compare(a, b, sort_by, order) ==
    CASE sort_by \notin DOMAIN a -> 0
      [] sort_by \in StringKeys ->
            IF order = "asc" THEN localeCompare(a[sort_by], b[sort_by])
            ELSE localeCompare(b[sort_by], a[sort_by])
      [] sort_by \in TimeKeys ->
            IF order = "asc" THEN sign(a[sort_by] - b[sort_by])
            ELSE sign(b[sort_by] - a[sort_by])
      [] sort_by \in NumberKeys ->
            IF order = "asc" THEN a[sort_by] - b[sort_by] ELSE b[sort_by] - a[sort_by]

\* items.sort(comparator).  The sort is stable: an item comes after the
\* items the comparator puts before it and after the earlier items the
\* comparator holds equal to it.
sort(items, sort_by, order) ==
    LET before(i) ==
            {j \in 1..Len(items) :
                \/ compare(items[j], items[i], sort_by, order) < 0
                \/ compare(items[j], items[i], sort_by, order) = 0 /\ j < i}
    IN  [k \in 1..Len(items) |->
            items[CHOOSE i \in 1..Len(items) : Cardinality(before(i)) = k - 1]]

\* items.filter(keep), for the set of the indices that are kept
filter(items, kept) ==
    [k \in 1..Cardinality(kept) |->
        items[CHOOSE i \in kept : Cardinality({j \in kept : j <= i}) = k]]

\* items.slice(start, end)
slice(items, start, end) ==
    LET index(k) == IF k < 0 THEN (IF Len(items) + k < 0 THEN 0 ELSE Len(items) + k)
                    ELSE Min(k, Len(items))
    IN  SubSeq(items, index(start) + 1, index(end))

\* Math.ceil(total / page_size) for a page_size of one or more
ceil(total, page_size) == (total + page_size - 1) \div page_size

\* no search text: the parameter is not set, or it is the empty string
NoSearch == <<>>

\* the query strings of GET /api/employees.  A number is the value parseInt
\* reads from the parameter, Null a parameter that is not set.
EmployeeQueries ==
    [page : {Null, 2, 6}, page_size : {Null, 1, 3},
     sort_by : {Undefined, "name", "salary"},
     order : {Undefined, "desc"},
     search : {NoSearch, <<"K", "E">>},
     department : {Undefined, "Finance"}]

\* the query strings of GET /api/jobs
JobQueries ==
    [page : {Null, 2, 6}, page_size : {Null, 1, 2},
     status : {Undefined, "pending", "completed"},
     sort_by : {Undefined, "file_size", "no_such_field"},
     order : {Undefined, "asc"}]

\* filterEmployees before it paginates: the employees that pass the filters,
\* sorted
filteredEmployees(params) ==
    LET sort_by == IF params.sort_by = Undefined THEN "employee_id" ELSE params.sort_by
        order == IF params.order = Undefined THEN "asc" ELSE params.order
        searchLower == toLowerCase(params.search)
        found ==
            IF params.search = NoSearch THEN employees
            ELSE filter(employees,
                        {k \in 1..Len(employees) :
                            \/ includes(toLowerCase(employees[k].name), searchLower)
                            \/ includes(toLowerCase(employees[k].employee_id), searchLower)})
        filtered ==
            IF params.department = Undefined THEN found
            ELSE filter(found, {k \in 1..Len(found) :
                                    found[k].department_name = params.department})
    IN  sort(filtered, sort_by, order)

\* a pagination that starts every page one page late
filterEmployees_PageLate(params) ==
    LET page == IF params.page = Null THEN 1 ELSE params.page
        page_size == IF params.page_size = Null THEN 20 ELSE params.page_size
        filtered == filteredEmployees(params)
        start == page * page_size
    IN  [employees |-> slice(filtered, start, start + page_size),
         total |-> Len(filtered),
         page |-> page,
         page_size |-> page_size,
         total_pages |-> ceil(Len(filtered), page_size)]

filterEmployees(params) ==
    LET page == IF params.page = Null THEN 1 ELSE params.page
        page_size == IF params.page_size = Null THEN 20 ELSE params.page_size
        filtered == filteredEmployees(params)
        total == Len(filtered)
        total_pages == ceil(total, page_size)
        start == (page - 1) * page_size
        end == start + page_size
    IN  [employees |-> slice(filtered, start, end),
         total |-> total,
         page |-> page,
         page_size |-> page_size,
         total_pages |-> total_pages]

\* the keys of MOCK_JOBS in the order they were set: the sample jobs, then
\* the submitted jobs in the order of their creation
created(ids) ==
    [k \in 1..Cardinality(ids) |->
        CHOOSE id \in ids :
            Cardinality({other \in ids : jobs[other].started_at < jobs[id].started_at}) = k - 1]

keysOfJobs == <<completedJobId, oldJobId, failedJobId>> \o created(DOMAIN jobs \ SampleIds)

\* getJobsList before it paginates: the jobs of the status, sorted
filteredJobs(params) ==
    LET sort_by == IF params.sort_by = Undefined THEN "started_at" ELSE params.sort_by
        order == IF params.order = Undefined THEN "desc" ELSE params.order
        all == [k \in 1..Len(keysOfJobs) |-> jobsListItem(jobs[keysOfJobs[k]])]
        filtered ==
            IF params.status = Undefined THEN all
            ELSE filter(all, {k \in 1..Len(all) : all[k].status = params.status})
    IN  sort(filtered, sort_by, order)

getJobsList(params) ==
    LET page == IF params.page = Null THEN 1 ELSE params.page
        page_size == IF params.page_size = Null THEN 20 ELSE params.page_size
        filtered == filteredJobs(params)
        total == Len(filtered)
        total_pages == ceil(total, page_size)
        start == (page - 1) * page_size
        end == start + page_size
    IN  [jobs |-> slice(filtered, start, end),
         total |-> total,
         page |-> page,
         page_size |-> page_size,
         total_pages |-> total_pages]

\* the params the two handlers read from the query string
employeesParams(query) ==
    [page |-> IF query.page = Null THEN 1 ELSE query.page,
     page_size |-> IF query.page_size = Null THEN 20 ELSE query.page_size,
     sort_by |-> query.sort_by, order |-> query.order,
     search |-> query.search, department |-> query.department]

jobsParams(query) ==
    [page |-> IF query.page = Null THEN 1 ELSE query.page,
     page_size |-> IF query.page_size = Null THEN 20 ELSE query.page_size,
     status |-> query.status, sort_by |-> query.sort_by, order |-> query.order]

\* GET /api/employees
employeesHandler(query) ==
    [kind |-> "employees", query |-> query, status |-> 200,
     body |-> filterEmployees(employeesParams(query))]

\* GET /api/jobs
jobsHandler(query) ==
    [kind |-> "jobs", query |-> query, status |-> 200,
     body |-> getJobsList(jobsParams(query))]

ListEmployees(query) ==
    /\ resp' = employeesHandler(query)
    /\ UNCHANGED <<jobs, sim, now, employees>>
    /\ UNCHANGED clientVars

\* a handler that writes the total of the rows into the jobs it lists
ListJobs_Writes(query) ==
    /\ resp' = jobsHandler(query)
    /\ jobs' = [id \in DOMAIN jobs |-> [jobs[id] EXCEPT !.processed_rows = total_rows]]
    /\ UNCHANGED <<sim, now, employees>>
    /\ UNCHANGED clientVars

ListJobs(query) ==
    /\ resp' = jobsHandler(query)
    /\ UNCHANGED <<jobs, sim, now, employees>>
    /\ UNCHANGED clientVars

\* the queries for the first page of the jobs of one status, or of all
StatusQueries ==
    {query \in JobQueries :
        /\ query.page = Null /\ query.page_size = Null
        /\ query.sort_by = Undefined /\ query.order = Undefined}

\* the status of the jobs is read, and the jobs are listed, while a submitted
\* job runs
NextReads ==
    \/ \E req \in AcceptedRequests : UploadOnce(req)
    \/ \E job_id \in Uuids : InitialTimeout(job_id)
    \/ \E job_id \in Uuids : StepTimeout(job_id)
    \/ \E job_id \in Uuids : IntervalTick(job_id)
    \/ \E jobId \in QueryIds : GetStatus(jobId)
    \/ \E query \in StatusQueries : ListJobs(query)

SpecReads == InitLeast /\ [][NextReads]_vars

\* A client that lists the employees and the sample jobs page by page: it
\* sends a query when it has no answer at hand, and takes the answer before
\* it sends the next one.
PageOfEmployees(query) == resp = NoResponse /\ ListEmployees(query)

PageOfJobs(query) == resp = NoResponse /\ ListJobs(query)

TakeAnswer ==
    /\ resp # NoResponse
    /\ resp' = NoResponse
    /\ UNCHANGED <<jobs, sim, now, employees>>
    /\ UNCHANGED clientVars

NextPages ==
    \/ \E query \in EmployeeQueries : PageOfEmployees(query)
    \/ \E query \in JobQueries : PageOfJobs(query)
    \/ TakeAnswer

SpecPages == Init /\ [][NextPages]_vars

-----------------------------------------------------------------------------
(* The helpers of the job page: progress, retry delays, processing timeline *)

\* the row counts calculateProgress is called with; Null is null
Rows == {Null} \cup 0..MaxRows

\* A quotient is kept exact, as a numerator over a denominator of one or
\* more, where the program holds the nearest double.
Quotient(num, den) == [num |-> num, den |-> den]

\* a <= b for two quotients
NotAbove(a, b) == a.num * b.den <= b.num * a.den

\* Math.min(a, b) for two quotients
MathMin(a, b) == IF NotAbove(a, b) THEN a ELSE b

\* a progress without the cap
calculateProgress_Uncapped(processedRows, totalRows) ==
    IF totalRows = Null \/ totalRows = 0 THEN Quotient(0, 1)
    ELSE IF processedRows = Null \/ processedRows = 0 THEN Quotient(0, 1)
    ELSE Quotient(processedRows * 100, totalRows)

calculateProgress(processedRows, totalRows) ==
    IF totalRows = Null \/ totalRows = 0 THEN Quotient(0, 1)
    ELSE IF processedRows = Null \/ processedRows = 0 THEN Quotient(0, 1)
    ELSE MathMin(Quotient(processedRows * 100, totalRows), Quotient(100, 1))

\* the keys of the timeline the job page shows, in display order
PROCESSING_STEPS == <<"pending", "reading", "validating", "transforming", "persisting", "completed">>

\* PROCESSING_STEPS.findIndex(s => s.key === currentStep), 1-based: 0 is the
\* code's -1 for a key that is not in the list
StepIndex(current_step) ==
    IF \E i \in 1..Len(PROCESSING_STEPS) : PROCESSING_STEPS[i] = current_step
    THEN CHOOSE i \in 1..Len(PROCESSING_STEPS) : PROCESSING_STEPS[i] = current_step
    ELSE 0

\* the props of ProcessingTimeline: a status, and a current step that is a
\* key of the timeline, null, or a string that is no key
JobStatuses == {"pending", "processing", "completed", "failed"}
CurrentSteps ==
    {PROCESSING_STEPS[i] : i \in 1..Len(PROCESSING_STEPS)} \cup {"null", "archiving"}

\* a timeline that shows the current step as done
getStepStatus_CurrentDone(status, currentStep, stepKey) ==
    LET currentIndex == StepIndex(currentStep)
        stepIndex == StepIndex(stepKey)
    IN  IF status = "completed" THEN "completed"
        ELSE IF status = "failed"
        THEN (IF stepIndex <= currentIndex THEN "current" ELSE "pending")
        ELSE IF stepIndex <= currentIndex THEN "completed"
        ELSE "pending"

getStepStatus(status, currentStep, stepKey) ==
    LET currentIndex == StepIndex(currentStep)
        stepIndex == StepIndex(stepKey)
    IN  IF status = "completed" THEN "completed"
        ELSE IF status = "failed"
        THEN (IF stepIndex <= currentIndex THEN "current" ELSE "pending")
        ELSE IF stepIndex < currentIndex THEN "completed"
        ELSE IF stepIndex = currentIndex THEN "current"
        ELSE "pending"

\* the job page computes the progress of the rows
Progress(processedRows, totalRows) ==
    /\ call' = [fn |-> "calculateProgress", processedRows |-> processedRows,
                totalRows |-> totalRows,
                result |-> calculateProgress(processedRows, totalRows)]
    /\ UNCHANGED <<mockVars, fetch, hook, table>>

\* the retryer asks for the delay before a retry of a query, of a mutation
RetryDelay(attemptIndex) ==
    /\ call' = [fn |-> "getRetryDelay", attemptIndex |-> attemptIndex,
                result |-> getRetryDelay(attemptIndex)]
    /\ UNCHANGED <<mockVars, fetch, hook, table>>

MutationRetryDelay(attemptIndex) ==
    /\ call' = [fn |-> "getMutationRetryDelay", attemptIndex |-> attemptIndex,
                result |-> getMutationRetryDelay(attemptIndex)]
    /\ UNCHANGED <<mockVars, fetch, hook, table>>

\* ProcessingTimeline renders its six steps
Timeline(status, currentStep) ==
    /\ call' = [fn |-> "ProcessingTimeline", status |-> status, currentStep |-> currentStep,
                steps |-> [i \in 1..Len(PROCESSING_STEPS) |->
                              getStepStatus(status, currentStep, PROCESSING_STEPS[i])]]
    /\ UNCHANGED <<mockVars, fetch, hook, table>>

NextHelpers ==
    \/ \E processedRows \in Rows, totalRows \in Rows : Progress(processedRows, totalRows)
    \/ \E attemptIndex \in 0..MaxAttemptIndex : RetryDelay(attemptIndex)
    \/ \E attemptIndex \in 0..MaxAttemptIndex : MutationRetryDelay(attemptIndex)
    \/ \E status \in JobStatuses, currentStep \in CurrentSteps : Timeline(status, currentStep)

SpecHelpers == InitLeast /\ [][NextHelpers]_vars

-----------------------------------------------------------------------------
(* Properties *)

Submitted == DOMAIN sim

Terminal(status) == status \in {"completed", "failed"}

StatusRank(status) ==
    CASE status = "pending" -> 0
      [] status = "processing" -> 1
      [] OTHER -> 2

\* C1: job status only moves pending -> processing -> completed/failed: a step
\* that changes the status of a job moves it forward, no job leaves the
\* registry, and once a job is completed or failed no step changes its status,
\* current_step, processed_rows or completed_at.
C1_StatusMovesForward ==
    [][\A id \in DOMAIN jobs :
          /\ id \in DOMAIN jobs'
          /\ jobs'[id].status # jobs[id].status
                => StatusRank(jobs'[id].status) > StatusRank(jobs[id].status)
          /\ Terminal(jobs[id].status)
                => /\ jobs'[id].status = jobs[id].status
                   /\ jobs'[id].current_step = jobs[id].current_step
                   /\ jobs'[id].processed_rows = jobs[id].processed_rows
                   /\ jobs'[id].completed_at = jobs[id].completed_at]_vars

\* a submitted job has run through all its timers and is completed
C1_Witness ==
    \E id \in Submitted :
        /\ jobs[id].status = "completed"
        /\ jobs[id].completed_at # Null
        /\ sim[id].timeout = "none"

\* C2: in every snapshot processed_rows <= total_rows, and from one snapshot
\* of a job to the next processed_rows does not decrease, whatever timer fires
\* in between.
C2_ProcessedRowsMonotone ==
    [][\A id \in DOMAIN jobs :
          /\ getMockJobStatus(id).processed_rows <= getMockJobStatus(id).total_rows
          /\ getMockJobStatus(id)'.processed_rows <= getMockJobStatus(id)'.total_rows
          /\ getMockJobStatus(id)'.processed_rows >= getMockJobStatus(id).processed_rows]_vars

\* a job is in its third step although the interval of its second step never
\* reached the end of that step
C2_Witness ==
    \E id \in Submitted :
        /\ jobs[id].current_step = "transforming"
        /\ jobs[id].processed_rows > 100
        /\ jobs[id].processed_rows < 300
        /\ sim[id].interval.currentRows = 300 * RowScale

\* C3: a job whose status is completed has processed_rows = total_rows.
C3_CompletedProcessedAll ==
    \A id \in DOMAIN jobs :
        getMockJobStatus(id).status = "completed"
            => getMockJobStatus(id).processed_rows = getMockJobStatus(id).total_rows

\* a submitted job was completed by processStep
C3_Witness ==
    \E id \in Submitted :
        /\ getMockJobStatus(id).status = "completed"
        /\ getMockJobStatus(id).processed_rows = total_rows

\* C4: in every snapshot error_rows is the number of errors listed in it, and
\* error_rows does not decrease from one snapshot of a job to the next.
C4_ErrorRowsCountErrors ==
    [][\A id \in DOMAIN jobs :
          /\ getMockJobStatus(id).error_rows = Len(getMockJobStatus(id).errors)
          /\ getMockJobStatus(id)'.error_rows = Len(getMockJobStatus(id)'.errors)
          /\ getMockJobStatus(id)'.error_rows >= getMockJobStatus(id).error_rows]_vars

\* the status endpoint answers with the row errors of a completed submitted job
C4_Witness ==
    /\ resp.kind = "status"
    /\ resp.status = 200
    /\ resp.job_id \in Submitted
    /\ resp.body.error_rows = Len(MOCK_JOB_ERRORS)
    /\ Len(resp.body.errors) = Len(MOCK_JOB_ERRORS)

\* C5: row errors never fail a job: no submitted job is ever failed, and a
\* submitted job whose timers have all fired is completed and reports
\* error_rows > 0.
C5_RowErrorsNeverFail ==
    \A id \in Submitted :
        /\ jobs[id].status # "failed"
        /\ sim[id].timeout = "none"
              => /\ getMockJobStatus(id).status = "completed"
                 /\ getMockJobStatus(id).error_rows > 0

\* a submitted job ended with rejected rows
C5_Witness ==
    \E id \in Submitted :
        /\ sim[id].timeout = "none"
        /\ getMockJobStatus(id).error_rows > 0
        /\ getMockJobStatus(id).errors # <<>>

\* C6: for every completed job the records persisted for it plus error_rows
\* are total_rows (= processed_rows), in the status snapshot and in the jobs
\* list.
C6_RowsAccounted ==
    \A id \in DOMAIN jobs :
        jobs[id].status = "completed"
            => /\ jobs[id].employee_count + getMockJobStatus(id).error_rows
                    = getMockJobStatus(id).total_rows
               /\ getMockJobStatus(id).total_rows = getMockJobStatus(id).processed_rows
               /\ jobsListItem(jobs[id]).employee_count + jobsListItem(jobs[id]).error_rows
                    = jobsListItem(jobs[id]).total_rows
               /\ jobsListItem(jobs[id]).successful_rows = jobsListItem(jobs[id]).employee_count

\* a submitted job with 508 rows and 8 rejected rows persisted 500 records
C6_Witness ==
    \E id \in Submitted :
        /\ jobs[id].status = "completed"
        /\ jobs[id].employee_count = 500
        /\ getMockJobStatus(id).error_rows = 8

\* C7: while a job is pending (nothing has been read) its snapshot and its
\* jobs-list entry report total_rows as null.
C7_TotalRowsUnknownWhilePending ==
    \A id \in DOMAIN jobs :
        jobs[id].status = "pending"
            => /\ getMockJobStatus(id).total_rows = Null
               /\ jobsListItem(jobs[id]).total_rows = Null

\* C8: status processing implies current_step is reading, validating,
\* transforming or persisting, and status pending implies current_step is
\* pending and processed_rows is 0.
C8_StatusAgreesWithStep ==
    \A id \in DOMAIN jobs :
        /\ jobs[id].status = "processing"
              => jobs[id].current_step
                    \in {"reading", "validating", "transforming", "persisting"}
        /\ jobs[id].status = "pending"
              => /\ jobs[id].current_step = "pending"
                 /\ jobs[id].processed_rows = 0

\* C9: an upload is accepted only with a file whose name ends in .xlsx or .xls
\* and whose size is at most 10MB; an accepted upload adds exactly one job,
\* under an identifier that was not registered, pending with processed_rows 0,
\* changes no other job and answers before any timer of the job has fired; a
\* rejected upload answers 400, 413 or 500 and leaves registry and timers as
\* they were.
C9_UploadRegistersOneJob ==
    [][resp'.kind = "upload" =>
          IF resp'.status = 200
          THEN /\ resp'.req.form = "ok"
               /\ resp'.req.file # NoFile
               /\ \/ endsWith(resp'.req.file.name, dotXlsx)
                  \/ endsWith(resp'.req.file.name, dotXls)
               /\ resp'.req.file.size <= 10 * 1024 * 1024
               /\ resp'.job_id \notin DOMAIN jobs
               /\ DOMAIN jobs' = DOMAIN jobs \cup {resp'.job_id}
               /\ \A id \in DOMAIN jobs : jobs'[id] = jobs[id]
               /\ jobs'[resp'.job_id].job_id = resp'.job_id
               /\ jobs'[resp'.job_id].status = "pending"
               /\ jobs'[resp'.job_id].processed_rows = 0
               /\ jobs'[resp'.job_id].filename = resp'.req.file.name
               /\ sim'[resp'.job_id].currentStep = 0
               /\ sim'[resp'.job_id].timeout = "initial"
          ELSE /\ resp'.status \in {400, 413, 500}
               /\ jobs' = jobs
               /\ sim' = sim]_vars

\* a file of exactly 10MB was accepted and its job is registered as pending
C9_Witness ==
    /\ resp.kind = "upload"
    /\ resp.status = 200
    /\ resp.req.file.size = MaxFileSize
    /\ resp.job_id \in DOMAIN jobs
    /\ jobs[resp.job_id].status = "pending"

\* C10: a status request for a registered identifier is answered 200 with the
\* snapshot of that very job, one for an identifier that is not registered is
\* answered 404 without a job record; the request changes no job.
C10_StatusOfKnownAndUnknown ==
    [][resp'.kind = "status" =>
          /\ jobs' = jobs
          /\ IF resp'.job_id \in DOMAIN jobs
             THEN /\ resp'.status = 200
                  /\ resp'.body.job_id = resp'.job_id
                  /\ resp'.body.filename = jobs[resp'.job_id].filename
                  /\ resp'.body.status = jobs[resp'.job_id].status
                  /\ resp'.body.current_step = jobs[resp'.job_id].current_step
                  /\ resp'.body.processed_rows = jobs[resp'.job_id].processed_rows
                  /\ resp'.body.started_at = jobs[resp'.job_id].started_at
                  /\ resp'.body.completed_at = jobs[resp'.job_id].completed_at
             ELSE /\ resp'.status = 404
                  /\ resp'.body = NoStatus]_vars

\* while one submitted job is running, the status of an identifier that was
\* never registered is asked and answered 404
C10_Witness ==
    /\ resp.kind = "status"
    /\ resp.status = 404
    /\ resp.job_id \notin DOMAIN jobs
    /\ \E id \in Submitted : jobs[id].status = "processing"

\* C11: every submitted job eventually reaches a terminal status (completed
\* or failed), provided its timers keep firing; none stays pending or
\* processing forever.
C11_SubmittedJobTerminates ==
    \A job_id \in Uuids :
        (job_id \in Submitted) ~> (job_id \in DOMAIN jobs /\ Terminal(jobs[job_id].status))

C11_Witness ==
    \E job_id \in Submitted :
        /\ sim[job_id].currentStep = Len(steps)
        /\ sim[job_id].timeout = "none"
        /\ Terminal(jobs[job_id].status)

\* C19: the current_step of every submitted job takes the values pending,
\* reading, validating, transforming, persisting, completed in that order: a
\* job is created at pending, and a step that changes current_step moves it
\* to the next value of the list (none skipped, none repeated, none revisited).
C19_StepsInOrder ==
    [][/\ \A job_id \in Submitted' \ Submitted :
              jobs'[job_id].current_step = PROCESSING_STEPS[1]
       /\ \A job_id \in Submitted :
              \/ jobs'[job_id].current_step = jobs[job_id].current_step
              \/ StepIndex(jobs'[job_id].current_step) = StepIndex(jobs[job_id].current_step) + 1]_vars

C19_Witness ==
    \E job_id \in Submitted :
        /\ jobs[job_id].current_step = "persisting"
        /\ sim[job_id].currentStep = Len(steps)
        /\ sim[job_id].timeout = "step"

\* a timer of simulateJobProgress(job_id) fires
TimerOf(job_id) == InitialTimeout(job_id) \/ StepTimeout(job_id) \/ IntervalTick(job_id)

\* a timer of one job leaves the record of every other job as it is
C20_TimerTouchesOwnJob ==
    \A job_id \in Uuids :
        TimerOf(job_id) => \A other \in DOMAIN jobs \ {job_id} :
                               other \in DOMAIN jobs' /\ jobs'[other] = jobs[other]

\* C20: jobs running concurrently do not interfere: under every interleaving
\* of the timers of two jobs, a timer of one job changes only that job's
\* record, and every submitted job reaches completed.
C20_ConcurrentJobsIndependent ==
    /\ [][C20_TimerTouchesOwnJob]_vars
    /\ \A job_id \in Uuids :
           (job_id \in Submitted) ~> (job_id \in DOMAIN jobs /\ jobs[job_id].status = "completed")

C20_Witness ==
    \E a \in Submitted : \E b \in Submitted \ {a} :
        /\ jobs[a].status = "completed"
        /\ jobs[b].status = "completed"
        /\ jobs[a].started_at < jobs[b].started_at
        /\ jobs[b].started_at < jobs[a].completed_at
        /\ jobs[b].completed_at < jobs[a].completed_at

\* the failures the retry configuration documents as retried: no response
\* from the server, server errors, request timeout, rate limit
RetryableFailures ==
    {AxiosError(Null, TRUE)} \cup {AxiosError(status, TRUE) : status \in {500, 502, 503, 504, 408, 429}}

\* C13: a query made through the API client whose request fails because the
\* server gave no response, or with HTTP 500, 502, 503, 504, 408 or 429, is
\* retried until it succeeds or 3 retries have been made: the retryer never
\* gives up on such a failure before the third retry.
C13_RetryableFailureRetried ==
    (/\ fetch.kind = "query"
     /\ fetch.decision.cause \in RetryableFailures
     /\ fetch.decision.failureCount < 3)
        => fetch.decision.retry

\* C14: shouldRetry never permits a retry when failureCount >= 3, never for a
\* 4xx response other than 408 and 429, and never for an error that is not
\* an Axios error; so a failing query sends at most 4 requests.
C14_QueryRetryLimits ==
    fetch.kind = "query" =>
        /\ fetch.requests <= 4
        /\ fetch.decision.retry =>
               /\ fetch.decision.failureCount < 3
               /\ fetch.decision.error.isAxiosError
               /\ fetch.decision.error.response \notin {400, 401, 403, 404}
               /\ fetch.decision.error.response \in 400..499 =>
                      fetch.decision.error.response \in {408, 429}

C14_Witness ==
    /\ fetch.kind = "query"
    /\ fetch.requests = 4
    /\ fetch.status = "error"
    /\ fetch.decision.failureCount = 3
    /\ fetch.decision.error = AxiosError(503, TRUE)

InProgress(data) == data # NoData /\ data.status \in {"pending", "processing"}

Finished(data) == data # NoData /\ Terminal(data.status)

\* what holds of the query and its interval timer in every state
PollingMatchesData(h) ==
    /\ (h.mounted /\ enabled(h.jobId) /\ InProgress(h.data)) => h.interval = POLLING_INTERVAL_MS
    /\ Finished(h.data) => h.interval = Null
    /\ h.data = NoData => h.interval = Null

\* no fetch starts once completed or failed was fetched, by timer or by
\* remount; and a fetch that finds the job terminal ends the polling
PollingStopsWhenTerminal ==
    /\ (~hook.fetching /\ hook'.fetching) => ~Finished(hook.data)
    /\ (FetchSucceeds /\ Terminal(jobs[hook.jobId].status)) =>
           Finished(hook'.data) /\ hook'.interval = Null

\* the job page mounts again, the query having no data and no fetch in flight
RemountWithoutData ==
    /\ hook.created /\ ~hook.mounted /\ hook'.mounted
    /\ hook.data = NoData /\ ~hook.fetching
    /\ enabled(hook.jobId)

\* C12 as stated: useJobStatus polls exactly while the job is in progress;
\* after a fetch that returned completed or failed, or when no status data has
\* been fetched at all, no further fetch is scheduled and a remount does not
\* refetch.
C12_Original ==
    [][/\ PollingMatchesData(hook')
       /\ PollingStopsWhenTerminal
       /\ RemountWithoutData => ~hook'.fetching]_vars

\* C12: while the job page is mounted, a fetch that returned pending or
\* processing leaves the next fetch scheduled after the polling interval;
\* after a fetch that returned completed or failed no fetch is scheduled and
\* a remount does not refetch, so polling stops with the first successful
\* fetch made once the job is terminal; while no status data has been
\* fetched no interval fetch is scheduled, but a remount does refetch.
C12_PollsWhileInProgress ==
    [][/\ PollingMatchesData(hook')
       /\ PollingStopsWhenTerminal
       /\ RemountWithoutData => hook'.fetching]_vars

C12_Witness ==
    /\ hook.jobId \in Submitted
    /\ Terminal(jobs[hook.jobId].status)
    /\ hook.mounted
    /\ InProgress(hook.data)
    /\ hook.interval = POLLING_INTERVAL_MS
    /\ hook.fetching

\* the request carries value under one of the keys
Carries(request, keys, value) ==
    \E key \in keys \cap DOMAIN request.params : request.params[key] = value

\* C16: for every EmployeeQueryParams value, the request that getEmployees
\* sends carries the caller's page, page size, free-text search, department
\* filter, sort field and sort order: a parameter the caller set is never
\* dropped.
C16_EmployeeRequestCarriesParams ==
    call.fn = "getEmployees" =>
        /\ call.args.page >= 1 => Carries(call.request, {"page"}, call.args.page)
        /\ call.args.page_size >= 1 =>
               Carries(call.request, {"page_size", "size"}, call.args.page_size)
        /\ call.args.department # Undefined =>
               Carries(call.request, {"department"}, call.args.department)
        /\ call.args.search # Undefined => Carries(call.request, {"search"}, call.args.search)
        /\ call.args.sort_by # Undefined => Carries(call.request, {"sort_by"}, call.args.sort_by)
        /\ call.args.order # Undefined => Carries(call.request, {"order"}, call.args.order)

\* C18: the mock server exposes the API contract the frontend uses: every
\* request issued by uploadFile, getJobStatus, getEmployees and getJobs
\* matches a route of the mock handlers, and an accepted request returns the
\* data the function unwraps from the mock's response.
C18_MockServesEndpoints ==
    call # NoCall =>
        /\ call.route # "none"
        /\ call.status = 200 => call.result = "data"

\* the rows as a set, without the bookkeeping timestamp updated_at
RowSet(rows) ==
    {[employee_id |-> rows[i].employee_id, salary |-> rows[i].salary,
      created_at |-> rows[i].created_at] : i \in 1..Len(rows)}

OneRowPerEmployee(rows) ==
    \A i, j \in 1..Len(rows) : rows[i].employee_id = rows[j].employee_id => i = j

\* the step commits the batch that the step before it committed
SameBatchAgain ==
    /\ table'.uploads = table.uploads + 1
    /\ table'.last.committed
    /\ table'.last.again

\* C17: the destination table holds at most one row per employee_id after
\* any sequence of uploads, and uploading the same file a second time leaves
\* the set of rows (keys and attribute values other than updated_at) as it
\* was after the first upload.
C17_MergeByNaturalKey ==
    [][/\ OneRowPerEmployee(table'.rows)
       /\ SameBatchAgain => RowSet(table'.rows) = RowSet(table.rows)]_vars

C17_Witness ==
    /\ table.last.committed
    /\ table.last.again
    /\ Len(table.last.batch) > 1
    /\ Len(table.rows) > 1
    /\ \A i \in 1..Len(table.rows) : table.rows[i].created_at < table.rows[i].updated_at

\* C21: a status read is a snapshot.  In every state the status of any job
\* can be read, whatever the jobs are doing; the step that reads a status or
\* lists the jobs changes no job record, adds and removes no entry of the
\* registry, leaves the timers alone, and answers with the status each job
\* has at that moment, finished or not.
StatusReadsNeverWait == \A jobId \in QueryIds : ENABLED GetStatus(jobId)

ReadIsSnapshot ==
    resp'.kind \in {"status", "jobs"} =>
        /\ jobs' = jobs
        /\ sim' = sim
        /\ resp'.kind = "status" /\ resp'.status = 200 =>
                resp'.body.status = jobs[resp'.job_id].status
        /\ resp'.kind = "jobs" =>
                \A k \in 1..Len(resp'.body.jobs) :
                    LET job == resp'.body.jobs[k]
                    IN  job.job_id \in DOMAIN jobs /\ job.status = jobs[job.job_id].status

C21_ReadsAreSnapshots == [][StatusReadsNeverWait /\ ReadIsSnapshot]_vars

\* a job that is still processing has been read, by its status or in the list
C21_Witness ==
    \/ /\ resp.kind = "status"
       /\ resp.status = 200
       /\ resp.body.status = "processing"
       /\ jobs[resp.job_id].status = "processing"
    \/ /\ resp.kind = "jobs"
       /\ \E k \in 1..Len(resp.body.jobs) :
            /\ resp.body.jobs[k].status = "processing"
            /\ jobs[resp.body.jobs[k].job_id].status = "processing"

\* C22: pagination partitions the filtered, sorted list.  For a page_size of
\* one or more, total is the length of the list, total_pages is the least
\* number of pages of page_size items that hold it, page p of 1..total_pages
\* is the p-th run of page_size items of the list (the last page the rest),
\* so the pages in a row are the list, and a page after the last is empty.
\* It holds of the employees and of the jobs, for the page that was answered
\* and for every other page of the same query.
Partitions(whole, page_size, pages) ==
    LET total == Len(whole)
        total_pages == pages[1].total_pages
    IN  /\ page_size >= 1
        /\ \A p \in DOMAIN pages :
                /\ pages[p].total = total
                /\ pages[p].total_pages = total_pages
        /\ total_pages * page_size >= total
        /\ (total_pages - 1) * page_size < total
        /\ \A p \in 1..total_pages :
                /\ Len(pages[p].items) \in 1..page_size
                /\ pages[p].items = SubSeq(whole, (p - 1) * page_size + 1, Min(p * page_size, total))
        /\ \A p \in DOMAIN pages : p > total_pages => pages[p].items = <<>>

\* the pages of the query that was answered: the answer itself, and what the
\* same query returns for every other page up to two pages past the last
EmployeePagesPartition ==
    resp.kind = "employees" =>
        LET params == employeesParams(resp.query)
            Page(p) ==
                LET body == IF p = params.page THEN resp.body
                            ELSE filterEmployees([params EXCEPT !.page = p])
                IN  [items |-> body.employees, total |-> body.total,
                     total_pages |-> body.total_pages]
        IN  \A whole \in {filteredEmployees(params)} :
                \A pages \in {[p \in 1..(Len(whole) + 2) |-> Page(p)]} :
                    Partitions(whole, params.page_size, pages)

JobPagesPartition ==
    resp.kind = "jobs" =>
        LET params == jobsParams(resp.query)
            Page(p) ==
                LET body == IF p = params.page THEN resp.body
                            ELSE getJobsList([params EXCEPT !.page = p])
                IN  [items |-> body.jobs, total |-> body.total,
                     total_pages |-> body.total_pages]
        IN  \A whole \in {filteredJobs(params)} :
                \A pages \in {[p \in 1..(Len(whole) + 2) |-> Page(p)]} :
                    Partitions(whole, params.page_size, pages)

C22_PaginationPartitions == EmployeePagesPartition /\ JobPagesPartition

\* the last page of the employees has been answered, and it is not full
C22_Witness ==
    /\ resp.kind = "employees"
    /\ resp.body.total_pages >= 2
    /\ resp.body.page = resp.body.total_pages
    /\ Len(resp.body.employees) \in 1..(resp.body.page_size - 1)
    /\ resp.body.total = Len(employees)

\* a page of the jobs after the first has been answered
C22_JobsWitness ==
    /\ resp.kind = "jobs"
    /\ resp.body.page \in 2..resp.body.total_pages
    /\ Len(resp.body.jobs) >= 1

\* C23: for row counts that are not negative calculateProgress returns a
\* value from 0 to 100: 0 when totalRows is null or 0 or processedRows is
\* null or 0, otherwise the smaller of 100 and processedRows * 100 /
\* totalRows; and for the same totalRows it returns no more for fewer
\* processed rows.
C23_ProgressInRange ==
    call.fn = "calculateProgress" =>
        LET processedRows == call.processedRows
            totalRows == call.totalRows
            result == call.result
        IN  /\ result.den >= 1
            /\ NotAbove(Quotient(0, 1), result)
            /\ NotAbove(result, Quotient(100, 1))
            /\ IF totalRows \in {Null, 0} \/ processedRows \in {Null, 0}
               THEN result.num = 0
               ELSE IF processedRows <= totalRows
               THEN result.num * totalRows = processedRows * 100 * result.den
               ELSE result.num = 100 * result.den
            /\ processedRows # Null =>
                    \A fewer \in 0..processedRows :
                        NotAbove(calculateProgress(fewer, totalRows), result)

\* a progress strictly between two whole percents has been computed
C23_Witness ==
    /\ call.fn = "calculateProgress"
    /\ call.processedRows \in 1..(call.totalRows - 1)
    /\ call.result.num % call.result.den # 0

\* a progress has been capped at 100
C23_Capped ==
    /\ call.fn = "calculateProgress"
    /\ call.totalRows >= 1
    /\ call.processedRows > call.totalRows
    /\ call.result = Quotient(100, 1)

\* C24: the retry delays back off exponentially with a cap.  getRetryDelay
\* gives 1000, 2000 and 4000 ms for the attempt indices 0, 1 and 2 of the
\* first three retries, doubles with every attempt until it would pass
\* 30000, never exceeds 30000 and never falls when the attempt index grows;
\* getMutationRetryDelay never exceeds 10000 and never falls either.
C24_RetryDelaysBackOff ==
    /\ call.fn = "getRetryDelay" =>
            /\ call.attemptIndex = 0 => call.result = 1000
            /\ call.attemptIndex = 1 => call.result = 2000
            /\ call.attemptIndex = 2 => call.result = 4000
            /\ call.result <= 30000
            /\ call.result < 30000 => call.result = 1000 * 2 ^ call.attemptIndex
            /\ \A earlier \in 0..call.attemptIndex : getRetryDelay(earlier) <= call.result
    /\ call.fn = "getMutationRetryDelay" =>
            /\ call.result <= 10000
            /\ call.result < 10000 => call.result = 2000 * 2 ^ call.attemptIndex
            /\ \A earlier \in 0..call.attemptIndex :
                    getMutationRetryDelay(earlier) <= call.result

\* a delay of a query has been cut at the cap
C24_Witness ==
    /\ call.fn = "getRetryDelay"
    /\ call.result = 30000
    /\ 1000 * 2 ^ call.attemptIndex > 30000

\* C25: ProcessingTimeline marks its steps consistently with the job.  For a
\* status processing or pending and a current step that is a key of the
\* timeline, that step alone is 'current', every step before it is
\* 'completed' and every step after it is 'pending'; for the status
\* completed all six steps are 'completed' whatever the current step is; for
\* a current step that is null or no key, and a status that is not
\* completed, every step is 'pending'.
C25_TimelineConsistent ==
    call.fn = "ProcessingTimeline" =>
        LET current == StepIndex(call.currentStep)
            shown == call.steps
        IN  /\ Len(shown) = 6
            /\ call.status \in {"processing", "pending"} /\ current # 0 =>
                    /\ shown[current] = "current"
                    /\ \A i \in 1..(current - 1) : shown[i] = "completed"
                    /\ \A i \in (current + 1)..6 : shown[i] = "pending"
            /\ call.status = "completed" => \A i \in 1..6 : shown[i] = "completed"
            /\ call.status # "completed" /\ current = 0 => \A i \in 1..6 : shown[i] = "pending"

\* a timeline of a processing job in the middle of its steps has been shown
C25_Witness ==
    /\ call.fn = "ProcessingTimeline"
    /\ call.status = "processing"
    /\ call.currentStep = "validating"
    /\ call.steps = <<"completed", "completed", "current", "pending", "pending", "pending">>

====
